---- MODULE Spec2Model ----
(***************************************************************************)
(* A model of snake-u (src/snake-u/main.c): the main loop of the game, the *)
(* gamepad poll, the frame clock, moveSnake, checkSnakeCollision and       *)
(* shutdown.  The player, the system clock, the allocator, rand() and the  *)
(* platform's keep-running signal are the environment.                     *)
(***************************************************************************)
EXTENDS Integers, Sequences, FiniteSets, TLC

(***************************************************************************)
(* Program constants                                                       *)
(***************************************************************************)
BLOCK_SIZE == 20

\* typedef enum direction { up, right, down, left, none }
up == "up"
right == "right"
down == "down"
left == "left"
none == "none"
direction == {up, right, down, left, none}

\* the literals of checkSnakeCollision's border test
BORDER_MIN == 20
BORDER_MAX_X == 1260
BORDER_MAX_Y == 700

\* the divisors of the apple relocation: 1240 / BLOCK_SIZE and 680 / BLOCK_SIZE
APPLE_SPAN_X == 1240
APPLE_SPAN_Y == 680
APPLE_COLS == APPLE_SPAN_X \div BLOCK_SIZE
APPLE_ROWS == APPLE_SPAN_Y \div BLOCK_SIZE

\* static struct snake snake = {300, 340, 4, none}; the arrays are zero-filled
SNAKE_INIT_X == 300
SNAKE_INIT_Y == 340
SNAKE_INIT_LENGTH == 4
\* static struct apple apple = {980, 340}
APPLE_INIT_X == 980
APPLE_INIT_Y == 340

\* FPS = 5.0, FRAME_TIME = 1000.0 / FPS ms, FRAME_TIME_NS = FRAME_TIME * 1000000
FPS == 5
FRAME_TIME_NS == (1000 \div FPS) * 1000000
\* OSNanosecondsToTicks(ns) is (ns * (timer clock / 31250)) / 32000 on the
\* console; the division is done first here (FRAME_TIME_NS is a multiple of
\* 32000) so that no intermediate value exceeds 32 bits.
OS_TIMER_CLOCK == 62156250
OSNanosecondsToTicks(ns) == (ns \div 32000) * (OS_TIMER_CLOCK \div 31250)
FrameTicks == OSNanosecondsToTicks(FRAME_TIME_NS)

(***************************************************************************)
(* Bounds of the model                                                     *)
(***************************************************************************)
\* logical ticks explored with free input after the scripted approach
MaxTicks == 2
\* the time counter is kept at or below MaxBacklog frame times
MaxBacklog == 3

(***************************************************************************)
(* unsigned int                                                            *)
(* A 32-bit unsigned value v is held as the integer with the same bit      *)
(* pattern: v itself below 2^31, v - 2^32 from 2^31 on.  Addition and      *)
(* subtraction of small constants are then the integer ones, and the       *)
(* unsigned comparisons are ULt and UGe.                                   *)
(***************************************************************************)
ULt(a, b) == IF (a < 0) = (b < 0) THEN a < b ELSE b < 0
UGe(a, b) == ~ULt(a, b)

(***************************************************************************)
(* The body arrays.  body_x and body_y are static, hence zero-filled; the  *)
(* program writes them from index 0 upwards without gaps, so each is held  *)
(* as the sequence of the entries written so far and every other entry     *)
(* reads as 0.  C index i is element i + 1.                                *)
(***************************************************************************)
BodyAt(arr, i) == IF i + 1 <= Len(arr) THEN arr[i + 1] ELSE 0

Max(a, b) == IF a >= b THEN a ELSE b

\* mutant: the shift runs upwards, so every entry takes the old body[0]
ShiftBody_Ascending(arr, length, temp) ==
  [j \in 1..Max(Len(arr), length - 1) |->
     IF j = 1 THEN temp
     ELSE IF j <= length - 1 THEN BodyAt(arr, 0)
     ELSE arr[j]]

\* for (i = length - 2; i > 0; i--) body[i] = body[i - 1];  body[0] = temp;
ShiftBody(arr, length, temp) ==
  [j \in 1..Max(Len(arr), length - 1) |->
     IF j = 1 THEN temp
     ELSE IF j <= length - 1 THEN BodyAt(arr, j - 2)
     ELSE arr[j]]

(***************************************************************************)
(* moveSnake                                                               *)
(***************************************************************************)
\* mutant: the rule is applied to the horizontal headings only
Unreversed_HorizontalOnly(dir, prev) ==
  CASE prev = right -> IF dir = left  THEN prev ELSE dir
    [] prev = left  -> IF dir = right THEN prev ELSE dir
    [] OTHER        -> dir

\* mutant: a reverse request stops the snake
Unreversed_StopsOnReverse(dir, prev) ==
  CASE prev = up    -> IF dir = down  THEN none ELSE dir
    [] prev = right -> IF dir = left  THEN none ELSE dir
    [] prev = down  -> IF dir = up    THEN none ELSE dir
    [] prev = left  -> IF dir = right THEN none ELSE dir
    [] prev = none  -> IF dir = left  THEN none ELSE dir

\* the switch on previousDirection: the reverse of the previous heading (and
\* left after none) is replaced by the previous heading
Unreversed(dir, prev) ==
  CASE prev = up    -> IF dir = down  THEN prev ELSE dir
    [] prev = right -> IF dir = left  THEN prev ELSE dir
    [] prev = down  -> IF dir = up    THEN prev ELSE dir
    [] prev = left  -> IF dir = right THEN prev ELSE dir
    [] prev = none  -> IF dir = left  THEN prev ELSE dir

\* mutant: the y axis is taken to grow upwards
MoveHead_YInverted(s) ==
  CASE s.direction = up    -> [s EXCEPT !.y = @ + BLOCK_SIZE]
    [] s.direction = right -> [s EXCEPT !.x = @ + BLOCK_SIZE]
    [] s.direction = down  -> [s EXCEPT !.y = @ - BLOCK_SIZE]
    [] s.direction = left  -> [s EXCEPT !.x = @ - BLOCK_SIZE]
    [] s.direction = none  -> s

\* the switch on snake.direction that moves the head
MoveHead(s) ==
  CASE s.direction = up    -> [s EXCEPT !.y = @ - BLOCK_SIZE]
    [] s.direction = right -> [s EXCEPT !.x = @ + BLOCK_SIZE]
    [] s.direction = down  -> [s EXCEPT !.y = @ + BLOCK_SIZE]
    [] s.direction = left  -> [s EXCEPT !.x = @ - BLOCK_SIZE]
    [] s.direction = none  -> s

\* mutant: the heading None does not return early
moveSnake_NoEarlyReturn(s, prev) ==
  LET turned == [s EXCEPT !.direction = Unreversed(s.direction, prev)]
      moved  == MoveHead(turned)
  IN  [snake |-> [moved EXCEPT
                    !.body_x = ShiftBody(s.body_x, s.length, s.x),
                    !.body_y = ShiftBody(s.body_y, s.length, s.y)],
       previousDirection |-> turned.direction]

\* the whole function, on the snake and its static previousDirection
moveSnake(s, prev) ==
  LET turned == [s EXCEPT !.direction = Unreversed(s.direction, prev)]
      moved  == MoveHead(turned)
  IN  IF turned.direction = none
      THEN [snake |-> turned, previousDirection |-> prev]
      ELSE [snake |-> [moved EXCEPT
                         !.body_x = ShiftBody(s.body_x, s.length, s.x),
                         !.body_y = ShiftBody(s.body_y, s.length, s.y)],
            previousDirection |-> turned.direction]

(***************************************************************************)
(* checkSnakeCollision                                                     *)
(***************************************************************************)
\* mutant: the scan stops one segment short of the tail
HitsItself_SkipsTail(s) ==
  \E i \in 0..(s.length - 3) :
     s.x = BodyAt(s.body_x, i) /\ s.y = BodyAt(s.body_y, i)

\* for (i = 0; i < length - 1; i++) if (x == body_x[i] && y == body_y[i])
HitsItself(s) ==
  \E i \in 0..(s.length - 2) :
     s.x = BodyAt(s.body_x, i) /\ s.y = BodyAt(s.body_y, i)

\* mutant: the left border is not tested
HitsBorder_NoLeft(s) ==
  \/ UGe(s.x, BORDER_MAX_X)
  \/ ULt(s.y, BORDER_MIN) \/ UGe(s.y, BORDER_MAX_Y)

\* mutant: the top border is not tested
HitsBorder_NoTop(s) ==
  \/ ULt(s.x, BORDER_MIN) \/ UGe(s.x, BORDER_MAX_X)
  \/ UGe(s.y, BORDER_MAX_Y)

HitsBorder(s) ==
  \/ ULt(s.x, BORDER_MIN) \/ UGe(s.x, BORDER_MAX_X)
  \/ ULt(s.y, BORDER_MIN) \/ UGe(s.y, BORDER_MAX_Y)

\* (rand() % (1240 / BLOCK_SIZE)) * BLOCK_SIZE + 20, and the same for y
AppleX(r) == (r % APPLE_COLS) * BLOCK_SIZE + 20
\* mutant: the row is drawn over the number of columns
AppleY_OverColumns(r) == (r % APPLE_COLS) * BLOCK_SIZE + 20

AppleY(r) == (r % APPLE_ROWS) * BLOCK_SIZE + 20

\* mutant: eating does not increment the length
checkSnakeCollision_NoGrowth(s, a, sc, rx, ry) ==
  IF HitsItself(s) \/ HitsBorder(s)
  THEN [ret |-> TRUE, snake |-> s, apple |-> a, score |-> sc]
  ELSE IF s.x = a.x /\ s.y = a.y
  THEN [ret |-> FALSE, snake |-> s,
        apple |-> [x |-> AppleX(rx), y |-> AppleY(ry)],
        score |-> sc + 1]
  ELSE [ret |-> FALSE, snake |-> s, apple |-> a, score |-> sc]

\* mutant: a drawn cell that the head or the body covers is drawn again
checkSnakeCollision_Reroll(s, a, sc, rx, ry) ==
  IF HitsItself(s) \/ HitsBorder(s)
  THEN [ret |-> TRUE, snake |-> s, apple |-> a, score |-> sc]
  ELSE IF s.x = a.x /\ s.y = a.y
  THEN [ret |-> FALSE,
        snake |-> [s EXCEPT !.length = @ + 1],
        apple |-> IF HitsItself([s EXCEPT !.x = AppleX(rx), !.y = AppleY(ry)])
                     \/ (s.x = AppleX(rx) /\ s.y = AppleY(ry))
                  THEN [x |-> AppleX(ry), y |-> AppleY(rx)]
                  ELSE [x |-> AppleX(rx), y |-> AppleY(ry)],
        score |-> sc + 1]
  ELSE [ret |-> FALSE, snake |-> s, apple |-> a, score |-> sc]

\* mutant: eating does not increment the score
checkSnakeCollision_NoScore(s, a, sc, rx, ry) ==
  IF HitsItself(s) \/ HitsBorder(s)
  THEN [ret |-> TRUE, snake |-> s, apple |-> a, score |-> sc]
  ELSE IF s.x = a.x /\ s.y = a.y
  THEN [ret |-> FALSE,
        snake |-> [s EXCEPT !.length = @ + 1],
        apple |-> [x |-> AppleX(rx), y |-> AppleY(ry)],
        score |-> sc]
  ELSE [ret |-> FALSE, snake |-> s, apple |-> a, score |-> sc]

\* the whole function; rx and ry are the two values rand() returns when the
\* apple is moved.  ret is the return value.
checkSnakeCollision(s, a, sc, rx, ry) ==
  IF HitsItself(s) \/ HitsBorder(s)
  THEN [ret |-> TRUE, snake |-> s, apple |-> a, score |-> sc]
  ELSE IF s.x = a.x /\ s.y = a.y
  THEN [ret |-> FALSE,
        snake |-> [s EXCEPT !.length = @ + 1],
        apple |-> [x |-> AppleX(rx), y |-> AppleY(ry)],
        score |-> sc + 1]
  ELSE [ret |-> FALSE, snake |-> s, apple |-> a, score |-> sc]

(***************************************************************************)
(* The environment                                                         *)
(***************************************************************************)
\* the values VPADRead can leave in error; the last two take the default case
VPAD_READ_SUCCESS == "VPAD_READ_SUCCESS"
VPAD_READ_NO_SAMPLES == "VPAD_READ_NO_SAMPLES"
VPAD_READ_INVALID_CONTROLLER == "VPAD_READ_INVALID_CONTROLLER"
VPADReadError == {VPAD_READ_SUCCESS, VPAD_READ_NO_SAMPLES,
                  VPAD_READ_INVALID_CONTROLLER, "VPAD_READ_BUSY",
                  "VPAD_READ_UNINITIALIZED"}

\* status.trigger: the set of d-pad buttons whose rising edge was read
Buttons == {up, right, down, left}
Triggers == SUBSET Buttons

\* thisTime - lastTime of one loop iteration, in system ticks
ElapsedVals == {0, FrameTicks \div 2, FrameTicks + FrameTicks \div 2}

\* values returned by the two consecutive calls of rand() that place the
\* apple: the two corners of the interior grid, the cell the apple starts on,
\* the cell to its right, a cell the tail covers right after the first apple
\* is eaten, and a cell away from the snake's row
RandPairs == {<<0, 0>>, <<2107, 2107>>, <<48, 16>>, <<49, 16>>, <<109, 16>>,
              <<16, 48>>}

\* The player's scripts: while a script lasts, every poll reads exactly its
\* first heading, and each logical tick consumes one entry.  The empty script
\* leaves the player free from the start; ToApple stops one block short of
\* the apple and leaves the player free there; the border scripts run the
\* head into a border; ToTail eats the apple and then turns the head back
\* onto the tail.
Repeat(d, n) == [i \in 1..n |-> d]
ToApple == Repeat(right, (APPLE_INIT_X - SNAKE_INIT_X) \div BLOCK_SIZE - 1)
ToTopBorder == Repeat(up, (SNAKE_INIT_Y - BORDER_MIN) \div BLOCK_SIZE + 1)
ToBottomBorder ==
  Repeat(down, (BORDER_MAX_Y - SNAKE_INIT_Y) \div BLOCK_SIZE)
ToLeftBorder ==
  <<up>> \o Repeat(left, (SNAKE_INIT_X - BORDER_MIN) \div BLOCK_SIZE + 1)
ToRightBorder ==
  Repeat(right, (BORDER_MAX_X - SNAKE_INIT_X) \div BLOCK_SIZE)
ToTail ==
  Repeat(right, (APPLE_INIT_X - SNAKE_INIT_X) \div BLOCK_SIZE)
    \o <<down, left, up>>
Scripts == {<<>>, ToApple, ToTopBorder, ToBottomBorder, ToLeftBorder,
            ToRightBorder, ToTail}

(***************************************************************************)
(* State                                                                   *)
(***************************************************************************)
VARIABLES
  pc,                 \* where main is
  tvBuffer, drcBuffer,\* "null", "allocated" or "freed"
  screen,             \* the OSScreen library as main's calls leave it
  shutdownCalls,      \* how many times shutdown() ran
  exitCode,           \* main's return value, NoExit while it runs
  vpad_fatal,
  snake,              \* x, y, length, direction, body_x, body_y
  previousDirection,  \* the static of moveSnake
  apple,
  score,
  gameOver,
  timeCounter,
  loopEntered,        \* history: the loop condition was evaluated
  nTicks,             \* history: logical ticks executed
  pre,                \* history: the game state as the last tick found it
  used,               \* history: the heading the last tick moved in
  cmd,                \* history: sum of the commanded moves, and whether a
                      \*          requested heading was ever rejected
  clock,              \* history: the frame clock's account: ticks elapsed in
                      \*          all, ticks fired in all, and for the current
                      \*          iteration the accumulator it started with,
                      \*          the elapsed ticks it added, whether the tick
                      \*          fired and how many ticks ran
  poll,               \* history: what the poll of the current iteration read
                      \*          and the requested heading it found, kept
                      \*          until the frame clock is evaluated
  rolled,             \* history: the two values rand() returned last
  script,             \* environment: what is left of the player's script
  freeTicks           \* environment: ticks executed after the script

vars == <<pc, tvBuffer, drcBuffer, screen, shutdownCalls, exitCode, vpad_fatal,
          snake, previousDirection, apple, score, gameOver, timeCounter,
          loopEntered, nTicks, pre, used, cmd, clock, poll, rolled,
          script, freeTicks>>

game == <<snake, previousDirection, apple, score, gameOver>>
platform == <<tvBuffer, drcBuffer, screen, shutdownCalls, exitCode>>
history == <<loopEntered, nTicks, pre, used, cmd, clock, poll, rolled>>
NoPoll == [error |-> "", trigger |-> {}, before |-> none]

NoExit == -1

Snapshot == [snake |-> snake, previousDirection |-> previousDirection,
             apple |-> apple, score |-> score]

Init ==
  /\ pc = "start"
  /\ tvBuffer = "null"
  /\ drcBuffer = "null"
  /\ screen = [state |-> "off", buffersSet |-> FALSE, tvEnabled |-> FALSE,
               misused |-> FALSE]
  /\ shutdownCalls = 0
  /\ exitCode = NoExit
  /\ vpad_fatal = FALSE
  /\ snake = [x |-> SNAKE_INIT_X, y |-> SNAKE_INIT_Y,
              length |-> SNAKE_INIT_LENGTH, direction |-> none,
              body_x |-> <<>>, body_y |-> <<>>]
  /\ previousDirection = none
  /\ apple = [x |-> APPLE_INIT_X, y |-> APPLE_INIT_Y]
  /\ score = 0
  /\ gameOver = FALSE
  /\ timeCounter = 0
  /\ loopEntered = FALSE
  /\ nTicks = 0
  /\ pre = Snapshot
  /\ used = none
  /\ cmd = [x |-> 0, y |-> 0, rejected |-> FALSE]
  /\ clock = [total |-> 0, fires |-> 0, carry |-> 0, elapsed |-> 0,
              fired |-> FALSE, ticks |-> 0]
  /\ poll = NoPoll
  /\ rolled = <<0, 0>>
  /\ script \in Scripts
  /\ freeTicks = 0

(***************************************************************************)
(* main, up to the loop                                                    *)
(***************************************************************************)
\* if (buffer) free(buffer)
Free(b) ==
  CASE b = "null"      -> "null"
    [] b = "allocated" -> "freed"
    [] OTHER           -> "freed twice"

\* a call into the OSScreen library; it is a misuse unless the library is up
ScreenCall(scr) == IF scr.state = "on" THEN scr ELSE [scr EXCEPT !.misused = TRUE]

\* shutdown(), on the buffers and the screen as the caller has them
shutdown(tv, drc, scr) ==
  /\ tvBuffer' = Free(tv)
  /\ drcBuffer' = Free(drc)
  /\ screen' = [ScreenCall(scr) EXCEPT !.state = "shutdown"]
  /\ shutdownCalls' = shutdownCalls + 1

\* for (i = 0; i < length - 1; i++) { body_x[i] = x - (i + 1) * BLOCK_SIZE; body_y[i] = y; }
SeedBody(s) ==
  [s EXCEPT !.body_x = [j \in 1..(s.length - 1) |-> s.x - j * BLOCK_SIZE],
            !.body_y = [j \in 1..(s.length - 1) |-> s.y]]

\* main from its first line to the loop: the two allocations succeed or not
Startup ==
  /\ pc = "start"
  /\ \E tvOk, drcOk \in BOOLEAN :
       LET tv  == IF tvOk THEN "allocated" ELSE "null"
           drc == IF drcOk THEN "allocated" ELSE "null"
           scr == [screen EXCEPT !.state = "on"]
       IN  IF tv = "null" \/ drc = "null"
           THEN /\ shutdown(tv, drc, scr)
                /\ exitCode' = 1
                /\ pc' = "done"
                /\ UNCHANGED <<snake, gameOver, timeCounter>>
           ELSE /\ tvBuffer' = tv
                /\ drcBuffer' = drc
                /\ screen' = [ScreenCall(scr) EXCEPT !.buffersSet = TRUE,
                                                     !.tvEnabled = TRUE]
                /\ timeCounter' = 0
                /\ snake' = SeedBody(snake)
                /\ gameOver' = FALSE
                /\ pc' = "loop"
                /\ UNCHANGED <<shutdownCalls, exitCode>>
  /\ UNCHANGED <<vpad_fatal, previousDirection, apple, score, history,
                 script, freeTicks>>

(***************************************************************************)
(* The main loop                                                           *)
(***************************************************************************)
\* while (WHBProcIsRunning())
LoopTest ==
  /\ pc = "loop"
  /\ \E running \in BOOLEAN : pc' = IF running THEN "poll" ELSE "shutdown"
  /\ loopEntered' = TRUE
  /\ clock' = [clock EXCEPT !.carry = 0, !.elapsed = 0, !.fired = FALSE,
                            !.ticks = 0]
  /\ UNCHANGED <<platform, vpad_fatal, game, timeCounter, nTicks, pre, used,
                 cmd, poll, rolled, script, freeTicks>>

\* mutant: the chain tests Left first
Pressed_LeftFirst(dir, trigger) ==
  IF left \in trigger THEN left
  ELSE IF up \in trigger THEN up
  ELSE IF right \in trigger THEN right
  ELSE IF down \in trigger THEN down
  ELSE dir

\* the if/else chain on status.trigger
Pressed(dir, trigger) ==
  IF up \in trigger THEN up
  ELSE IF right \in trigger THEN right
  ELSE IF down \in trigger THEN down
  ELSE IF left \in trigger THEN left
  ELSE dir

\* what one poll can read: anything, or the script's heading while it lasts
PollInputs ==
  IF script = <<>>
  THEN ({VPAD_READ_SUCCESS} \X Triggers)
       \cup ((VPADReadError \ {VPAD_READ_SUCCESS}) \X {{}})
  ELSE {<<VPAD_READ_SUCCESS, {Head(script)}>>}

\* mutant: a successful poll moves the head at once
handleGamepadInput_MovesHead ==
  /\ pc = "poll"
  /\ \E in \in PollInputs :
       LET error == in[1]
           trigger == in[2]
       IN  /\ CASE error = VPAD_READ_SUCCESS ->
                    /\ snake' = MoveHead([snake EXCEPT
                                   !.direction = Pressed(@, trigger)])
                    /\ UNCHANGED vpad_fatal
               [] error = VPAD_READ_NO_SAMPLES ->
                    UNCHANGED <<snake, vpad_fatal>>
               [] OTHER ->
                    /\ vpad_fatal' = TRUE
                    /\ UNCHANGED snake
           /\ poll' = [error |-> error, trigger |-> trigger,
                        before |-> snake.direction]
  /\ pc' = "clock"
  /\ UNCHANGED <<platform, previousDirection, apple, score, gameOver,
                 timeCounter, loopEntered, nTicks, pre, used, cmd, clock,
                 rolled, script, freeTicks>>

handleGamepadInput ==
  /\ pc = "poll"
  /\ \E in \in PollInputs :
       LET error == in[1]
           trigger == in[2]
       IN  /\ CASE error = VPAD_READ_SUCCESS ->
                    /\ snake' = [snake EXCEPT
                                   !.direction = Pressed(@, trigger)]
                    /\ UNCHANGED vpad_fatal
               [] error = VPAD_READ_NO_SAMPLES ->
                    UNCHANGED <<snake, vpad_fatal>>
               [] OTHER ->
                    /\ vpad_fatal' = TRUE
                    /\ UNCHANGED snake
           /\ poll' = [error |-> error, trigger |-> trigger,
                        before |-> snake.direction]
  /\ pc' = "clock"
  /\ UNCHANGED <<platform, previousDirection, apple, score, gameOver,
                 timeCounter, loopEntered, nTicks, pre, used, cmd, clock,
                 rolled, script, freeTicks>>

\* the clock lets a tick fire while the script lasts or free ticks are left
CanTick == script # <<>> \/ freeTicks < MaxTicks

\* a frame clock that starts the accumulator afresh when the tick fires
Accumulate_Reset(tc, elapsed) ==
  IF tc + elapsed > FrameTicks
  THEN [fired |-> TRUE, timeCounter |-> 0]
  ELSE [fired |-> FALSE, timeCounter |-> tc + elapsed]

\* timeCounter += thisTime - lastTime; if (timeCounter > frame) timeCounter -= frame
Accumulate(tc, elapsed) ==
  IF tc + elapsed > FrameTicks
  THEN [fired |-> TRUE, timeCounter |-> tc + elapsed - FrameTicks]
  ELSE [fired |-> FALSE, timeCounter |-> tc + elapsed]

FrameClock ==
  /\ pc = "clock"
  /\ \E elapsed \in ElapsedVals :
       LET r == Accumulate(timeCounter, elapsed)
       IN  /\ timeCounter + elapsed <= MaxBacklog * FrameTicks
           /\ r.fired => CanTick
           /\ timeCounter' = r.timeCounter
           /\ pc' = IF r.fired THEN "tick" ELSE "check"
           /\ clock' = [clock EXCEPT
                          !.total = @ + elapsed,
                          !.fires = @ + (IF r.fired THEN 1 ELSE 0),
                          !.carry = timeCounter,
                          !.elapsed = elapsed,
                          !.fired = r.fired]
  /\ poll' = NoPoll
  /\ UNCHANGED <<platform, vpad_fatal, game, loopEntered, nTicks, pre, used,
                 cmd, rolled, script, freeTicks>>

\* history: one block in the heading d, as a displacement
Step(d) ==
  CASE d = up    -> [x |-> 0, y |-> -BLOCK_SIZE]
    [] d = right -> [x |-> BLOCK_SIZE, y |-> 0]
    [] d = down  -> [x |-> 0, y |-> BLOCK_SIZE]
    [] d = left  -> [x |-> -BLOCK_SIZE, y |-> 0]
    [] d = none  -> [x |-> 0, y |-> 0]

\* history: the requested heading d is one the anti-reversal rule rejects
Reverses(d, prev) ==
  \/ prev = up /\ d = down
  \/ prev = down /\ d = up
  \/ prev = right /\ d = left
  \/ prev = left /\ d = right
  \/ prev = none /\ d = left

\* the values rand() may return on this tick: it is called only when the
\* apple is eaten
RandDraws(moved) ==
  IF ~HitsItself(moved) /\ ~HitsBorder(moved)
     /\ moved.x = apple.x /\ moved.y = apple.y
  THEN RandPairs
  ELSE {<<0, 0>>}

\* the body of the frame: clear, drawBorder, moveSnake, checkSnakeCollision,
\* drawSnake, drawSquare, showScore, renderToScreen
Tick ==
  /\ pc = "tick"
  /\ LET m == moveSnake(snake, previousDirection)
     IN  \E r \in RandDraws(m.snake) :
           LET c == checkSnakeCollision(m.snake, apple, score, r[1], r[2])
           IN  /\ snake' = c.snake
               /\ previousDirection' = m.previousDirection
               /\ apple' = c.apple
               /\ score' = c.score
               /\ gameOver' = c.ret
               /\ rolled' = IF c.score # score THEN r ELSE rolled
  /\ screen' = ScreenCall(screen)
  /\ pc' = "check"
  /\ nTicks' = nTicks + 1
  /\ pre' = Snapshot
  /\ used' = moveSnake(snake, previousDirection).snake.direction
  /\ cmd' = [x |-> cmd.x + Step(snake.direction).x,
             y |-> cmd.y + Step(snake.direction).y,
             rejected |-> cmd.rejected
                          \/ Reverses(snake.direction, previousDirection)]
  /\ clock' = [clock EXCEPT !.ticks = @ + 1]
  /\ IF script # <<>>
     THEN script' = Tail(script) /\ UNCHANGED freeTicks
     ELSE freeTicks' = freeTicks + 1 /\ UNCHANGED script
  /\ UNCHANGED <<tvBuffer, drcBuffer, shutdownCalls, exitCode, vpad_fatal,
                 timeCounter, loopEntered, poll>>

\* mutant: the break is missing
EndOfIteration_NoBreak ==
  /\ pc = "check"
  /\ pc' = "loop"
  /\ UNCHANGED <<platform, vpad_fatal, game, timeCounter, history, script,
                 freeTicks>>

\* if (gameOver) break;
EndOfIteration ==
  /\ pc = "check"
  /\ pc' = IF gameOver THEN "shutdown" ELSE "loop"
  /\ UNCHANGED <<platform, vpad_fatal, game, timeCounter, history, script,
                 freeTicks>>

\* mutant: main returns after the loop without calling shutdown
Exit_NoShutdown ==
  /\ pc = "shutdown"
  /\ exitCode' = 0
  /\ pc' = "done"
  /\ UNCHANGED <<tvBuffer, drcBuffer, screen, shutdownCalls, vpad_fatal, game,
                 timeCounter, history, script, freeTicks>>

\* after the loop: shutdown(); return 0;
Exit ==
  /\ pc = "shutdown"
  /\ shutdown(tvBuffer, drcBuffer, screen)
  /\ exitCode' = 0
  /\ pc' = "done"
  /\ UNCHANGED <<vpad_fatal, game, timeCounter, history, script, freeTicks>>

Next ==
  \/ Startup
  \/ LoopTest
  \/ handleGamepadInput
  \/ FrameClock
  \/ Tick
  \/ EndOfIteration
  \/ Exit

Spec == Init /\ [][Next]_vars

(***************************************************************************)
(* Properties.  Each is stated on the state a tick leaves: pre is the game *)
(* state the last tick started from, used the heading it moved in, and     *)
(* the head, the body, the score and gameOver are as it left them.         *)
(***************************************************************************)
Ticked == nTicks > 0

\* the last tick moved the head one block in the heading d
MovedIn(d) ==
  /\ used = d
  /\ snake.x = pre.snake.x + Step(d).x
  /\ snake.y = pre.snake.y + Step(d).y

\* the head is on one of the body segments 0 .. len - 2
HeadOnBody(len) ==
  \E i \in 0..(len - 2) :
     snake.x = BodyAt(snake.body_x, i) /\ snake.y = BodyAt(snake.body_y, i)

\* the cells of the interior grid
GridX == {20 * k : k \in 1..62}
GridY == {20 * k : k \in 1..34}

\* C1: anti-reversal at tick time.  A tick that finds the previous heading Up
\* and the requested heading Down moves Up (likewise Right/Left, Down/Up,
\* Left/Right), and one that finds the previous heading None and the
\* requested heading Left does not move, whatever was polled before it.
C1_AntiReversal ==
  Ticked =>
    LET prev == pre.previousDirection
        req  == pre.snake.direction
    IN  /\ prev = up /\ req = down => MovedIn(up)
        /\ prev = right /\ req = left => MovedIn(right)
        /\ prev = down /\ req = up => MovedIn(down)
        /\ prev = left /\ req = right => MovedIn(left)
        /\ prev = none /\ req = left => MovedIn(none)

C1_Witness ==
  /\ Ticked /\ pc = "check"
  /\ pre.previousDirection = up /\ pre.snake.direction = down
  /\ used = up /\ snake.y = pre.snake.y - 20

\* C2: an input device fault is fatal.  Once a poll has set the fatal flag
\* the loop exits and shuts down: the iteration that read the fault may run
\* to its end, but the keep-running signal is not tested again and no other
\* poll (and so no tick of a later iteration) follows.
C2_FaultIsFatal ==
  vpad_fatal => pc \in {"clock", "tick", "check", "shutdown", "done"}

\* C3: boundary collision.  A tick that leaves the head at x < 20, x >= 1260,
\* y < 20 or y >= 700 returns terminal, and one that leaves it inside
\* [20,1260) x [20,700) and on no body segment returns not terminal.
C3_BoundaryCollision ==
  Ticked =>
    /\ (\/ ULt(snake.x, 20) \/ UGe(snake.x, 1260)
        \/ ULt(snake.y, 20) \/ UGe(snake.y, 700)) => gameOver
    /\ (/\ UGe(snake.x, 20) /\ ULt(snake.x, 1260)
        /\ UGe(snake.y, 20) /\ ULt(snake.y, 700)
        /\ ~HeadOnBody(pre.snake.length)) => ~gameOver

C3_Witness ==
  /\ Ticked /\ gameOver
  /\ snake.y = 0 /\ snake.x = 300
  /\ ~HeadOnBody(pre.snake.length)

\* C4: self-collision.  A tick that leaves the head on a body segment
\* 0 .. length - 2 returns terminal and leaves the score, the length and the
\* food position as they were, also when the head is on the food cell.
C4_SelfCollision ==
  Ticked /\ HeadOnBody(snake.length) =>
    /\ gameOver
    /\ score = pre.score
    /\ snake.length = pre.snake.length
    /\ apple = pre.apple

C4_Witness ==
  /\ Ticked /\ gameOver
  /\ HeadOnBody(snake.length)
  /\ snake.x = apple.x /\ snake.y = apple.y
  /\ UGe(snake.x, 20) /\ ULt(snake.x, 1260)
  /\ UGe(snake.y, 20) /\ ULt(snake.y, 700)

\* the last tick left the head on the food with no collision
AteFood ==
  /\ Ticked /\ ~gameOver
  /\ snake.x = pre.apple.x /\ snake.y = pre.apple.y

\* C5 as claimed: eating adds 1 to the score and to the length and moves the
\* food to a cell of the interior grid other than the one it was on.
C5_FoodMovesAway ==
  AteFood =>
    /\ score = pre.score + 1
    /\ snake.length = pre.snake.length + 1
    /\ apple.x \in GridX /\ apple.y \in GridY
    /\ apple # pre.apple

\* C5 as amended: eating adds 1 to the score and to the length and redraws the
\* food position as a cell of the interior grid, which may be the old cell.
C5_FoodConsumption ==
  AteFood =>
    /\ score = pre.score + 1
    /\ snake.length = pre.snake.length + 1
    /\ apple.x \in GridX /\ apple.y \in GridY

C5_Witness ==
  /\ AteFood /\ pc = "check"
  /\ score = 1 /\ snake.length = 5
  /\ apple # pre.apple

\* C6: head displacement.  While no requested heading has been rejected the
\* head is the initial head (300,340) plus one block per tick in the heading
\* requested at that tick (nothing for None); and every tick moves the head
\* by 20 along exactly one axis, or not at all when its heading is None.
C6_HeadDisplacement ==
  /\ (Ticked /\ ~cmd.rejected) =>
       snake.x = 300 + cmd.x /\ snake.y = 340 + cmd.y
  /\ Ticked =>
       LET dx == snake.x - pre.snake.x
           dy == snake.y - pre.snake.y
       IN  IF used = none
           THEN dx = 0 /\ dy = 0
           ELSE \/ dx \in {-20, 20} /\ dy = 0
                \/ dx = 0 /\ dy \in {-20, 20}

C6_Witness ==
  /\ nTicks >= 3 /\ ~cmd.rejected /\ ~gameOver
  /\ cmd.x > 0 /\ cmd.y > 0
  /\ snake.x = 300 + cmd.x /\ snake.y = 340 + cmd.y

\* C7: body shift.  A tick that moves leaves body[0] at the head it started
\* from and body[i] at the former body[i-1] for 1 <= i <= length - 2; and
\* after every tick the body arrays hold exactly length - 1 positions, also
\* after a tick that ate the food.
C7_BodyShift ==
  Ticked =>
    /\ used # none =>
         /\ BodyAt(snake.body_x, 0) = pre.snake.x
         /\ BodyAt(snake.body_y, 0) = pre.snake.y
         /\ \A i \in 1..(pre.snake.length - 2) :
              /\ BodyAt(snake.body_x, i) = BodyAt(pre.snake.body_x, i - 1)
              /\ BodyAt(snake.body_y, i) = BodyAt(pre.snake.body_y, i - 1)
    /\ Len(snake.body_x) = snake.length - 1
    /\ Len(snake.body_y) = snake.length - 1

\* the first n ticks all found the requested heading Right: each tick adds at
\* most one block to cmd.x, and adds it only for Right
RightOnly(n) == nTicks = n /\ cmd.x = n * 20

\* C8: end to end.  The game starts with the head at (300,340), length 4, the
\* body at (280,340),(260,340),(240,340), previous heading None and the food
\* at (980,340); three ticks that each find the requested heading Right take
\* the head to (320,340), (340,340), (360,340) and leave the body at
\* (340,340),(320,340),(300,340), the game running, score 0 and length 4.
C8_ThreeTicksRight ==
  /\ (nTicks = 0 /\ pc \in {"loop", "poll", "clock", "tick"}) =>
       /\ snake.x = 300 /\ snake.y = 340 /\ snake.length = 4
       /\ snake.body_x = <<280, 260, 240>> /\ snake.body_y = <<340, 340, 340>>
       /\ previousDirection = none
       /\ apple = [x |-> 980, y |-> 340]
  /\ RightOnly(1) => snake.x = 320 /\ snake.y = 340
  /\ RightOnly(2) => snake.x = 340 /\ snake.y = 340
  /\ RightOnly(3) =>
       /\ snake.x = 360 /\ snake.y = 340
       /\ snake.body_x = <<340, 320, 300>> /\ snake.body_y = <<340, 340, 340>>
       /\ ~gameOver /\ score = 0 /\ snake.length = 4

C8_Witness ==
  /\ RightOnly(3) /\ pc = "check"
  /\ pre.snake.x = 340 /\ snake.x = 360 /\ used = right

\* C9: a terminal verdict ends the game.  Once checkSnakeCollision has
\* returned true the iteration goes straight to the exit: no poll, clock
\* test or tick follows, the game state never changes again, shutdown runs
\* once and main returns 0.
C9_TerminalEndsGame ==
  /\ [](gameOver => pc \in {"check", "shutdown", "done"})
  /\ [](gameOver /\ pc = "done" => exitCode = 0 /\ shutdownCalls = 1)
  /\ [][gameOver =>
          /\ UNCHANGED <<game, nTicks, vpad_fatal, timeCounter>>
          /\ pc = "check" => pc' = "shutdown"
          /\ pc = "shutdown" => pc' = "done"]_vars

C9_Witness ==
  gameOver /\ pc = "done" /\ exitCode = 0 /\ shutdownCalls = 1

\* C10: scoped release.  However main ends, shutdown has run exactly once
\* and no call reached the screen library after it; when an allocation
\* failed the loop was never entered, the buffers were never set or
\* enabled and the exit code is 1; otherwise the exit code is 0.
C10_ScopedRelease ==
  /\ shutdownCalls <= 1
  /\ ~screen.misused
  /\ shutdownCalls = 1 <=> pc = "done"
  /\ pc = "done" =>
       /\ screen.state = "shutdown"
       /\ "allocated" \notin {tvBuffer, drcBuffer}
       /\ IF "null" \in {tvBuffer, drcBuffer}
          THEN /\ exitCode = 1
               /\ ~loopEntered /\ nTicks = 0
               /\ ~screen.buffersSet /\ ~screen.tvEnabled
          ELSE /\ exitCode = 0
               /\ loopEntered
               /\ tvBuffer = "freed" /\ drcBuffer = "freed"

C10_Witness ==
  /\ pc = "done" /\ exitCode = 1 /\ shutdownCalls = 1
  /\ tvBuffer = "freed" /\ drcBuffer = "null"

(***************************************************************************)
(* C11  The frame clock                                                    *)
(***************************************************************************)
\* the frame clock has been evaluated in the current iteration
ClockEvaluated == pc \in {"tick", "check"}

\* C11: every iteration adds the elapsed ticks to the accumulator; the tick
\* fires exactly when the accumulator is then strictly above the interval, at
\* most once per iteration, and takes exactly one interval off it; so the
\* accumulator is the total elapsed less one interval per tick fired, it is
\* never negative, and while it still holds more than an interval the tick
\* fires again on the next iteration.
C11_FrameClock ==
  /\ timeCounter = clock.total - FrameTicks * clock.fires
  /\ timeCounter >= 0
  /\ clock.ticks <= 1
  /\ clock.fires = nTicks + (IF pc = "tick" THEN 1 ELSE 0)
  /\ ClockEvaluated =>
       /\ clock.fired <=> clock.carry + clock.elapsed > FrameTicks
       /\ timeCounter = clock.carry + clock.elapsed
                          - (IF clock.fired THEN FrameTicks ELSE 0)
       /\ clock.carry > FrameTicks => clock.fired
       /\ pc = "tick" => clock.fired /\ clock.ticks = 0
       /\ pc = "check" => (clock.fired <=> clock.ticks = 1)

\* a tick fired out of the backlog alone, right after another tick, and the
\* backlog is not yet used up
C11_Witness ==
  /\ pc = "check"
  /\ clock.fired
  /\ clock.elapsed = 0
  /\ clock.carry = 2 * FrameTicks
  /\ timeCounter = FrameTicks
  /\ nTicks >= 2

(***************************************************************************)
(* C12  The input mapping                                                  *)
(***************************************************************************)
\* the poll of the current iteration has just returned
Polled == pc = "clock"

\* C12: a successful poll sets the requested heading to the first direction
\* pressed in the order Up, Right, Down, Left and leaves it alone when none is
\* pressed; a poll without data or with a device error leaves it alone; and
\* no poll turns a heading into None.
C12_InputMapping ==
  Polled =>
    /\ poll.error = VPAD_READ_SUCCESS =>
         /\ up \in poll.trigger => snake.direction = up
         /\ right \in poll.trigger /\ up \notin poll.trigger
              => snake.direction = right
         /\ down \in poll.trigger /\ poll.trigger \cap {up, right} = {}
              => snake.direction = down
         /\ left \in poll.trigger /\ poll.trigger \cap {up, right, down} = {}
              => snake.direction = left
         /\ poll.trigger \cap Buttons = {} => snake.direction = poll.before
    /\ poll.error # VPAD_READ_SUCCESS => snake.direction = poll.before
    /\ snake.direction = none => poll.before = none

\* Up and Left pressed together while the snake was heading right
C12_Witness ==
  /\ Polled
  /\ poll.error = VPAD_READ_SUCCESS
  /\ poll.trigger = {up, left}
  /\ poll.before = right
  /\ snake.direction = up
  /\ nTicks > 0

(***************************************************************************)
(* C13  The idle tick                                                      *)
(***************************************************************************)
\* the last tick found, after the anti-reversal rule, the heading None
IdleTick == Ticked /\ used = none

\* C13: a tick whose heading after the anti-reversal rule is None leaves the
\* head, the body, the length, the score, the food and the previous heading
\* as they were, and its verdict is "not over", although checkSnakeCollision
\* runs on it like on any other tick.
C13_IdleTick ==
  IdleTick =>
    /\ snake.x = pre.snake.x /\ snake.y = pre.snake.y
    /\ snake.body_x = pre.snake.body_x /\ snake.body_y = pre.snake.body_y
    /\ snake.length = pre.snake.length
    /\ score = pre.score
    /\ apple = pre.apple
    /\ previousDirection = pre.previousDirection
    /\ ~gameOver

\* an idle tick that found the request Left, which the rule turns into None,
\* after an idle tick that found no request at all
C13_Witness ==
  /\ IdleTick
  /\ nTicks = 2
  /\ pre.snake.direction = left
  /\ cmd.rejected
  /\ pc = "check"

(***************************************************************************)
(* C14  Score and length                                                   *)
(***************************************************************************)
\* what the last tick added to the score: 1 when it ate the food
Gain == IF AteFood THEN 1 ELSE 0

\* C14: the score and the length never decrease; the last tick raised each of
\* them by 1 when it ate the food and left them alone otherwise, and nothing
\* since has changed them; the length is at least 4 and is the score plus 4
\* in every state.
C14_ScoreAndLength ==
  /\ score = pre.score + Gain
  /\ snake.length = pre.snake.length + Gain
  /\ score >= pre.score
  /\ snake.length >= pre.snake.length
  /\ snake.length >= SNAKE_INIT_LENGTH
  /\ snake.length = score + SNAKE_INIT_LENGTH

\* the second apple has been eaten, and polls have run since
C14_Witness ==
  /\ score = 2 /\ snake.length = 6
  /\ pre.score = 1
  /\ pc = "clock"

(***************************************************************************)
(* C15  Where the food is                                                  *)
(***************************************************************************)
\* C15: in every state the food is on a cell of the interior grid, x in
\* {20, 40, ..., 1240} and y in {20, 40, ..., 680}, never on the border band.
C15_FoodOnInteriorGrid ==
  /\ apple.x \in GridX /\ apple.y \in GridY
  /\ apple.x >= BORDER_MIN /\ apple.x + BLOCK_SIZE <= BORDER_MAX_X
  /\ apple.y >= BORDER_MIN /\ apple.y + BLOCK_SIZE <= BORDER_MAX_Y

\* the food has been moved twice and is now on the last cell of the last row
C15_Witness ==
  /\ score = 2
  /\ apple.x = 1240 /\ apple.y = 680
  /\ pre.apple.x = 1000 /\ pre.apple.y = 340

(***************************************************************************)
(* C16  What a poll may change                                             *)
(***************************************************************************)
\* the head, the body, the length, the score, the food, the previous heading
\* and gameOver
Board == <<snake.x, snake.y, snake.body_x, snake.body_y, snake.length, score,
           apple, previousDirection, gameOver>>

\* C16: a poll, whatever it reads, changes nothing but the requested heading
\* and the fatal flag: the head, the body, the length, the score, the food,
\* the previous heading and gameOver stay as they are; once the loop runs,
\* these change only in a logical tick.
C16_InputFrame ==
  [][/\ pc = "poll" =>
          /\ UNCHANGED Board
          /\ UNCHANGED <<platform, timeCounter>>
     /\ (loopEntered /\ Board' # Board) => pc = "tick"]_vars

\* in mid-game a poll has turned the requested heading and another one has
\* raised the fatal flag
C16_Witness ==
  /\ Polled
  /\ score = 1
  /\ poll.error = VPAD_READ_SUCCESS
  /\ snake.direction # poll.before
  /\ vpad_fatal

(***************************************************************************)
(* C17  The food may land under the snake                                  *)
(***************************************************************************)
\* the food is on body segment i
FoodOnSegment(i) ==
  apple.x = BodyAt(snake.body_x, i) /\ apple.y = BodyAt(snake.body_y, i)

\* the food is under the head
FoodOnHead == apple.x = snake.x /\ apple.y = snake.y

\* C17: once the food has been eaten it lies on the very cell the two values
\* of rand() gave, whether or not the head or a body segment is on that cell:
\* nothing is drawn again.
C17_NoReroll ==
  score > 0 =>
    /\ rolled \in RandPairs
    /\ apple.x = AppleX(rolled[1])
    /\ apple.y = AppleY(rolled[2])

\* the food has just been moved onto the segment right behind the head
C17_Witness ==
  /\ AteFood /\ pc = "check"
  /\ FoodOnSegment(0)
  /\ ~FoodOnHead
  /\ apple.x = AppleX(rolled[1]) /\ apple.y = AppleY(rolled[2])

(***************************************************************************)
(* C18  The head stays on the playfield                                    *)
(***************************************************************************)
\* C18: after every tick that does not end the game the head is on a cell of
\* the interior grid and on none of the body segments 0 .. length - 2; and
\* in every state, the one after the terminal tick included, the head's
\* coordinates are within 0 .. 1260 and 0 .. 700, so that taking one block
\* off an unsigned coordinate never wraps below zero.
C18_HeadOnPlayfield ==
  /\ (Ticked /\ ~gameOver) =>
       /\ snake.x \in GridX /\ snake.y \in GridY
       /\ ~HeadOnBody(snake.length)
  /\ snake.x >= 0 /\ snake.x <= BORDER_MAX_X
  /\ snake.y >= 0 /\ snake.y <= BORDER_MAX_Y

\* a tick took the head to the leftmost interior column and the game goes on
C18_Witness ==
  /\ Ticked /\ ~gameOver
  /\ used = left
  /\ snake.x = BORDER_MIN
  /\ pc = "check"

(***************************************************************************)
(* C19  What drawSnake draws                                               *)
(***************************************************************************)
\* the squares drawSnake draws for the body: entries 0 .. length - 2 of the
\* body arrays, as the tick's moveSnake and checkSnakeCollision left them
drawSnake(s) ==
  [i \in 1..(s.length - 1) |->
     [x |-> BodyAt(s.body_x, i - 1), y |-> BodyAt(s.body_y, i - 1),
      written |-> i <= Len(s.body_x) /\ i <= Len(s.body_y)]]

\* a tick has just run; nothing has touched the snake since it was drawn
JustDrawn == pc = "check" /\ clock.ticks = 1

\* C19: on every tick each of the length - 1 body squares drawSnake draws is
\* an entry that the seeding or the body shift has written, hence a cell of
\* the interior grid; also on the tick that ate the food and incremented the
\* length.
C19_DrawnBodyIsReal ==
  JustDrawn =>
    \A i \in 1..Len(drawSnake(snake)) :
       /\ drawSnake(snake)[i].written
       /\ drawSnake(snake)[i].x \in GridX
       /\ drawSnake(snake)[i].y \in GridY

(***************************************************************************)
(* C20  No return to rest                                                  *)
(***************************************************************************)
\* the snake is as the setup left it: it has not moved yet
AtRest ==
  /\ snake.x = SNAKE_INIT_X /\ snake.y = SNAKE_INIT_Y
  /\ \A i \in 1..Len(snake.body_x) :
        /\ snake.body_x[i] = SNAKE_INIT_X - i * BLOCK_SIZE
        /\ snake.body_y[i] = SNAKE_INIT_Y

\* C20: the requested heading and the previous heading are None only while
\* the snake has not moved yet; a tick that moves leaves the previous heading
\* set, and every tick that finds it set moves the head by exactly one block
\* and leaves it set, whatever has been read.
C20_NoReturnToRest ==
  /\ previousDirection = none => AtRest
  /\ snake.direction = none => previousDirection = none
  /\ (Ticked /\ used # none) => previousDirection = used
  /\ (Ticked /\ pre.previousDirection # none) =>
       /\ used # none
       /\ MovedIn(used)
       /\ previousDirection # none
       /\ snake.direction # none

\* well after the first move, a tick that found the reverse of the previous
\* heading requested moved the head all the same
C20_Witness ==
  /\ Ticked /\ ~gameOver
  /\ nTicks > 2
  /\ pre.previousDirection = right
  /\ pre.snake.direction = left
  /\ MovedIn(right)

(***************************************************************************)
(* C21  The body arrays' capacity, on a playfield of GridW x GridH cells   *)
(*                                                                         *)
(* The program's playfield has 62 x 34 interior cells and body arrays of   *)
(* 62 * 34 entries.  The same game is played here on a playfield of        *)
(* GridW x GridH cells with arrays of GridW * GridH entries, so that the   *)
(* snake can fill it: moveSnake and the self-collision scan are the        *)
(* program's; the border test and the apple's relocation are the program's *)
(* with GridW and GridH in place of 62 and 34.  The clock is left out:     *)
(* every iteration polls once and ticks once, in one step.                 *)
(***************************************************************************)
\* the narrowest playfield whose top row holds the seeded snake
GridW == SNAKE_INIT_LENGTH
GridH == 2

\* the number of entries of body_x and of body_y
Capacity == GridW * GridH

\* the borders: 1260 and 700 in the program
GridMaxX == BORDER_MIN + GridW * BLOCK_SIZE
GridMaxY == BORDER_MIN + GridH * BLOCK_SIZE

GridHitsBorder(s) ==
  \/ ULt(s.x, BORDER_MIN) \/ UGe(s.x, GridMaxX)
  \/ ULt(s.y, BORDER_MIN) \/ UGe(s.y, GridMaxY)

\* mutant: the self-collision scan is left out
GridCollision_NoSelfScan(s, a, sc, rx, ry) ==
  IF GridHitsBorder(s)
  THEN [ret |-> TRUE, snake |-> s, apple |-> a, score |-> sc]
  ELSE IF s.x = a.x /\ s.y = a.y
  THEN [ret |-> FALSE,
        snake |-> [s EXCEPT !.length = @ + 1],
        apple |-> [x |-> (rx % GridW) * BLOCK_SIZE + 20,
                   y |-> (ry % GridH) * BLOCK_SIZE + 20],
        score |-> sc + 1]
  ELSE [ret |-> FALSE, snake |-> s, apple |-> a, score |-> sc]

\* checkSnakeCollision on the GridW x GridH playfield
GridCollision(s, a, sc, rx, ry) ==
  IF HitsItself(s) \/ GridHitsBorder(s)
  THEN [ret |-> TRUE, snake |-> s, apple |-> a, score |-> sc]
  ELSE IF s.x = a.x /\ s.y = a.y
  THEN [ret |-> FALSE,
        snake |-> [s EXCEPT !.length = @ + 1],
        apple |-> [x |-> (rx % GridW) * BLOCK_SIZE + 20,
                   y |-> (ry % GridH) * BLOCK_SIZE + 20],
        score |-> sc + 1]
  ELSE [ret |-> FALSE, snake |-> s, apple |-> a, score |-> sc]

\* the residues of rand() that matter on this playfield
GridRand == (0..(GridW - 1)) \X (0..(GridH - 1))

\* the state when the loop is entered: the head in the top row with the
\* seeded body filling the row to its left, the apple in the opposite corner
GridInit ==
  /\ pc = "poll"
  /\ tvBuffer = "allocated"
  /\ drcBuffer = "allocated"
  /\ screen = [state |-> "on", buffersSet |-> TRUE, tvEnabled |-> TRUE,
               misused |-> FALSE]
  /\ shutdownCalls = 0
  /\ exitCode = NoExit
  /\ vpad_fatal = FALSE
  /\ snake = SeedBody([x |-> SNAKE_INIT_LENGTH * BLOCK_SIZE, y |-> BORDER_MIN,
                       length |-> SNAKE_INIT_LENGTH, direction |-> none,
                       body_x |-> <<>>, body_y |-> <<>>])
  /\ previousDirection = none
  /\ apple = [x |-> GridMaxX - BLOCK_SIZE, y |-> GridMaxY - BLOCK_SIZE]
  /\ score = 0
  /\ gameOver = FALSE
  /\ timeCounter = 0
  /\ loopEntered = TRUE
  /\ nTicks = 0
  /\ pre = Snapshot
  /\ used = none
  /\ cmd = [x |-> 0, y |-> 0, rejected |-> FALSE]
  /\ clock = [total |-> 0, fires |-> 0, carry |-> 0, elapsed |-> 0,
              fired |-> FALSE, ticks |-> 0]
  /\ poll = NoPoll
  /\ rolled = <<0, 0>>
  /\ script = <<>>
  /\ freeTicks = 0

\* the values rand() may return on this iteration: it is called only when
\* the apple is eaten
GridDraws(moved) ==
  IF ~HitsItself(moved) /\ ~GridHitsBorder(moved)
     /\ moved.x = apple.x /\ moved.y = apple.y
  THEN GridRand
  ELSE {<<0, 0>>}

\* one iteration of the loop: handleGamepadInput reading successfully at most
\* one pressed direction, then moveSnake, checkSnakeCollision and the test of
\* gameOver that ends the loop
GridFrame ==
  /\ pc = "poll"
  /\ \E trigger \in {{}} \cup {{d} : d \in Buttons} :
       LET polled == [snake EXCEPT !.direction = Pressed(@, trigger)]
           m == moveSnake(polled, previousDirection)
       IN  \E r \in GridDraws(m.snake) :
             LET c == GridCollision(m.snake, apple, score, r[1], r[2])
             IN  /\ snake' = c.snake
                 /\ previousDirection' = m.previousDirection
                 /\ apple' = c.apple
                 /\ score' = c.score
                 /\ gameOver' = c.ret
                 /\ pc' = IF c.ret THEN "done" ELSE "poll"
  /\ UNCHANGED <<platform, vpad_fatal, timeCounter, history, script,
                 freeTicks>>

GridNext == GridFrame

GridSpec == GridInit /\ [][GridNext]_vars

\* the cells of the head and of the body entries written so far
SnakeCells ==
  {<<snake.x, snake.y>>}
    \cup {<<snake.body_x[i], snake.body_y[i]>> : i \in 1..Len(snake.body_x)}

\* C21: the body arrays have as many entries as the playfield has interior
\* cells; length - 1 never exceeds that number, so the highest index that the
\* body shift, the self-collision scan and drawSnake reach, length - 2, is
\* a valid one, and no entry is ever written past the end; and while the
\* game runs the head and the written body entries are on pairwise distinct
\* interior cells.
C21_WithinCapacity ==
  /\ snake.length - 1 <= Capacity
  /\ snake.length - 2 <= Capacity - 1
  /\ Len(snake.body_x) <= Capacity
  /\ Len(snake.body_y) <= Capacity
  /\ ~gameOver =>
       /\ Cardinality(SnakeCells) = Len(snake.body_x) + 1
       /\ \A c \in SnakeCells :
            /\ c[1] \in {BLOCK_SIZE * k : k \in 1..GridW}
            /\ c[2] \in {BLOCK_SIZE * k : k \in 1..GridH}

\* the snake has grown until the loops reach the last entry of the arrays
C21_Witness ==
  /\ snake.length - 1 = Capacity
  /\ score = Capacity + 1 - SNAKE_INIT_LENGTH

====
